---- MODULE Spec2Model ----
(***************************************************************************)
(* Model of quarry/types/registry.py: the three registry strategies        *)
(* (OpaqueRegistry, BitShiftRegistry, LookupRegistry), the construction of *)
(* a LookupRegistry from the JSON reports (from_json, __init__) and the    *)
(* runtime operations encode, decode, encode_block, decode_block and       *)
(* is_air_block.                                                           *)
(*                                                                         *)
(* Python values are modelled as follows.                                  *)
(*   - an int is an integer (Python ints do not overflow);                 *)
(*   - a dict that the code iterates (the parsed JSON objects, blocks,     *)
(*     registries, the encode maps) is a sequence of [k, v] records in     *)
(*     insertion order with distinct keys (Python 3.7+ dict order);        *)
(*   - a block's property dict, which the code only hashes by its items,   *)
(*     copies and compares, is a function from keys to values;             *)
(*   - frozenset(d.items()) is the set of <<key, value>> pairs;            *)
(*   - a call ends in a record [outcome, value]: outcome "ok" with the     *)
(*     returned value, or the name of the exception raised.                *)
(***************************************************************************)
EXTENDS Integers, Sequences, FiniteSets, TLC

VARIABLES strategy, dump, table, error, pc, call

vars == <<strategy, dump, table, error, pc, call>>

(***************************************************************************)
(* Bounds of the model.                                                    *)
(***************************************************************************)
MaxBlockId == 1
MaxStates == 3
MaxProtocolId == 1
MaxPrimary == 3
MaxAux == 33

(***************************************************************************)
(* Outcomes of a call.                                                     *)
(***************************************************************************)
Ok(v) == [outcome |-> "ok", value |-> v]
Raise(e) == [outcome |-> e, value |-> "none"]

\* KeyError and IndexError are Python's subclasses of LookupError.
IsLookupError(o) == o \in {"KeyError", "IndexError", "LookupError"}

(***************************************************************************)
(* Python dict, insertion ordered.                                         *)
(***************************************************************************)
EmptyDict == << >>
DictKeys(d) == {d[i].k : i \in DOMAIN d}
DictHas(d, key) == \E i \in DOMAIN d : d[i].k = key
DictGet(d, key) == d[CHOOSE i \in DOMAIN d : d[i].k = key].v
\* d[key] = value: an existing key keeps its place, a new key is appended.
DictSet_setdefault(d, key, value) ==
    IF DictHas(d, key) THEN d ELSE Append(d, [k |-> key, v |-> value])
DictSet(d, key, value) ==
    IF DictHas(d, key)
    THEN [i \in DOMAIN d |-> IF d[i].k = key THEN [k |-> key, v |-> value] ELSE d[i]]
    ELSE Append(d, [k |-> key, v |-> value])

RECURSIVE DictUpdateFrom(_, _, _)
DictUpdateFrom(d, other, i) ==
    IF i > Len(other) THEN d
    ELSE DictUpdateFrom(DictSet(d, other[i].k, other[i].v), other, i + 1)
\* d.update(other)
DictUpdate(d, other) == DictUpdateFrom(d, other, 1)

\* frozenset(value.items())
Items_keysOnly(value) == DOMAIN value
Items(value) == {<<key, value[key]>> : key \in DOMAIN value}

RECURSIVE MaxOf(_)
MaxOf(S) ==
    LET x == CHOOSE y \in S : TRUE
    IN  IF S = {x} THEN x
        ELSE LET m == MaxOf(S \ {x}) IN IF x > m THEN x ELSE m

(***************************************************************************)
(* Integer helpers: << >> & | and ceil(log(n, 2)).                         *)
(***************************************************************************)
ShiftLeft(x, n) == x * (2 ^ n)
ShiftRight(x, n) == x \div (2 ^ n)

RECURSIVE BitAnd(_, _)
BitAnd(a, b) ==
    IF a = 0 \/ b = 0 THEN 0
    ELSE (IF a % 2 = 1 /\ b % 2 = 1 THEN 1 ELSE 0) + 2 * BitAnd(a \div 2, b \div 2)

RECURSIVE BitOr(_, _)
BitOr(a, b) ==
    IF a = 0 THEN b
    ELSE IF b = 0 THEN a
    ELSE (IF a % 2 = 1 \/ b % 2 = 1 THEN 1 ELSE 0) + 2 * BitOr(a \div 2, b \div 2)

RECURSIVE CeilLog2From(_, _)
CeilLog2From(n, k) == IF 2 ^ k >= n THEN k ELSE CeilLog2From(n, k + 1)
\* int(math.ceil(math.log(n, 2))) for n >= 1: the least k with 2^k >= n.
CeilLog2(n) == CeilLog2From(n, 0)

(***************************************************************************)
(* OpaqueRegistry.                                                         *)
(***************************************************************************)
Opaque_encode(kind, obj) == Ok(obj)
Opaque_decode(kind, val) == Ok(val)
Opaque_encode_block(obj) == Ok(obj)
Opaque_decode_block(val) == Ok(val)
Opaque_is_air_block(obj) == Ok(obj = 0)

(***************************************************************************)
(* BitShiftRegistry: a block is a pair <<block_id, metadata>>.             *)
(***************************************************************************)
BitShift_max_bits == 13

BitShift_encode_block_add(obj) == Ok(ShiftLeft(obj[1], 4) + obj[2])
BitShift_encode_block(obj) == Ok(BitOr(ShiftLeft(obj[1], 4), obj[2]))
BitShift_decode_block(val) == Ok(<<ShiftRight(val, 4), BitAnd(val, 15)>>)
BitShift_is_air_block(obj) == Ok(obj[1] = 0)

(***************************************************************************)
(* LookupRegistry.__init__.                                                *)
(***************************************************************************)
NoTable == [built |-> FALSE]

RECURSIVE InvertFrom(_, _, _)
InvertFrom(d, i, acc) ==
    IF i > Len(d) THEN acc
    ELSE InvertFrom(d, i + 1, DictSet(acc, d[i].v, d[i].k))
\* {value: key for key, value in registry.items()}
InvertRegistry(registry) == InvertFrom(registry, 1, EmptyDict)

RECURSIVE EncodeBlockMapFrom(_, _, _)
EncodeBlockMapFrom(blocks, i, acc) ==
    IF i > Len(blocks) THEN acc
    ELSE EncodeBlockMapFrom(blocks, i + 1, DictSet(acc, Items(blocks[i].v), blocks[i].k))
\* {frozenset(value.items()): key for key, value in blocks.items()}
EncodeBlockMap_byIndex(blocks) ==
    [i \in DOMAIN EncodeBlockMapFrom(blocks, 1, EmptyDict) |->
        [k |-> EncodeBlockMapFrom(blocks, 1, EmptyDict)[i].k, v |-> i - 1]]
EncodeBlockMap(blocks) == EncodeBlockMapFrom(blocks, 1, EmptyDict)

\* {registry_name: {...} for registry_name, registry in registries.items()}
EncodeMap(registries) ==
    [i \in DOMAIN registries |->
        [k |-> registries[i].k, v |-> InvertRegistry(registries[i].v)]]

\* max(blocks.keys()) raises ValueError on an empty dict, math.log(0, 2)
\* raises ValueError (math domain error).
MaxBits_emptyZero(blocks) ==
    IF DictKeys(blocks) = {} THEN Ok(0)
    ELSE IF MaxOf(DictKeys(blocks)) = 0 THEN Raise("ValueError")
    ELSE Ok(CeilLog2(MaxOf(DictKeys(blocks))))
MaxBits(blocks) ==
    IF DictKeys(blocks) = {} THEN Raise("ValueError")
    ELSE IF MaxOf(DictKeys(blocks)) = 0 THEN Raise("ValueError")
    ELSE Ok(CeilLog2(MaxOf(DictKeys(blocks))))

LookupRegistry_init(blocks, registries) ==
    IF MaxBits(blocks).outcome # "ok" THEN MaxBits(blocks)
    ELSE Ok([built |-> TRUE,
             max_bits |-> MaxBits(blocks).value,
             decode_block_map |-> blocks,
             encode_block_map |-> EncodeBlockMap(blocks),
             decode_map |-> registries,
             encode_map |-> EncodeMap(registries)])

(***************************************************************************)
(* LookupRegistry.from_json.  The reports directory is modelled by its     *)
(* parsed content: blocks.json, and items.json and registries.json, each   *)
(* of which may be absent.                                                 *)
(***************************************************************************)
\* properties = state.get("properties", {}); properties['name'] = name
InjectName(properties, name) ==
    [key \in (DOMAIN properties) \cup {"name"} |->
        IF key = "name" THEN name ELSE properties[key]]

RECURSIVE RecordStates(_, _, _, _)
RecordStates(blocks, name, states, i) ==
    IF i > Len(states) THEN blocks
    ELSE RecordStates(DictSet(blocks, states[i].id, InjectName(states[i].properties, name)),
                      name, states, i + 1)

RECURSIVE LoadBlocksFrom(_, _, _)
LoadBlocksFrom(blocks, json, j) ==
    IF j > Len(json) THEN blocks
    ELSE LoadBlocksFrom(RecordStates(blocks, json[j].k, json[j].v.states, 1), json, j + 1)
\* lines 172-177: the blocks dict after reading blocks.json
LoadBlocks(json) == LoadBlocksFrom(EmptyDict, json, 1)

\* lines 179-185: registries_temp
RegistriesTemp(d) ==
    LET fromItems == IF d.items.exists
                     THEN DictSet(EmptyDict, "minecraft:item", [entries |-> d.items.content])
                     ELSE EmptyDict
    IN  IF d.registries.exists THEN DictUpdate(fromItems, d.registries.content)
        ELSE fromItems

\* obj['protocol_id'] for the i-th entry (Python counts from 0): raises KeyError
\* when the entry has no such key.
ProtocolId_position(entries, i) == Ok(i - 1)
ProtocolId_sequential(entries, i) ==
    IF "protocol_id" \in DOMAIN entries[i].v THEN Ok(entries[i].v["protocol_id"])
    ELSE Ok(i - 1)
ProtocolId(entries, i) ==
    IF "protocol_id" \in DOMAIN entries[i].v THEN Ok(entries[i].v["protocol_id"])
    ELSE Raise("KeyError")

RECURSIVE LoadRegistryFrom(_, _, _)
LoadRegistryFrom(entries, i, acc) ==
    IF i > Len(entries) THEN acc
    ELSE LoadRegistryFrom(entries, i + 1,
                          DictSet(acc, ProtocolId(entries, i).value, entries[i].k))
\* lines 188-190 for one registry: registries[registry_name][obj['protocol_id']] = name
LoadRegistry(entries) == LoadRegistryFrom(entries, 1, EmptyDict)

\* lines 187-190 for all of registries_temp
LoadRegistries(temp) ==
    IF \E i \in DOMAIN temp : \E j \in DOMAIN temp[i].v.entries :
           ProtocolId(temp[i].v.entries, j).outcome # "ok"
    THEN Raise("KeyError")
    ELSE Ok([i \in DOMAIN temp |->
                [k |-> temp[i].k, v |-> LoadRegistry(temp[i].v.entries)]])

from_json(d) ==
    LET blocks == LoadBlocks(d.blocks)
        registries == LoadRegistries(RegistriesTemp(d))
    IN  IF registries.outcome # "ok" THEN registries
        ELSE LookupRegistry_init(blocks, registries.value)

(***************************************************************************)
(* LookupRegistry runtime operations on a built table t.                   *)
(***************************************************************************)
Lookup_encode(t, registry, obj) ==
    IF ~DictHas(t.encode_map, registry) THEN Raise("KeyError")
    ELSE IF ~DictHas(DictGet(t.encode_map, registry), obj) THEN Raise("KeyError")
    ELSE Ok(DictGet(DictGet(t.encode_map, registry), obj))

Lookup_decode_default(t, registry, val) ==
    IF ~DictHas(t.decode_map, registry) THEN Ok(val)
    ELSE IF ~DictHas(DictGet(t.decode_map, registry), val) THEN Ok(val)
    ELSE Ok(DictGet(DictGet(t.decode_map, registry), val))
Lookup_decode(t, registry, val) ==
    IF ~DictHas(t.decode_map, registry) THEN Raise("KeyError")
    ELSE IF ~DictHas(DictGet(t.decode_map, registry), val) THEN Raise("KeyError")
    ELSE Ok(DictGet(DictGet(t.decode_map, registry), val))

Lookup_encode_block(t, obj) ==
    IF ~DictHas(t.encode_block_map, Items(obj)) THEN Raise("KeyError")
    ELSE Ok(DictGet(t.encode_block_map, Items(obj)))

\* dict(self.decode_block_map[val]): whether the caller gets a copy of the stored
\* dict (TRUE) or the stored dict itself (FALSE).
DecodeBlockReturnsStored == FALSE
DecodeBlockReturnsCopy == TRUE

Lookup_decode_block(t, val) ==
    IF ~DictHas(t.decode_block_map, val) THEN Raise("KeyError")
    ELSE Ok(DictGet(t.decode_block_map, val))

Lookup_is_air_block(obj) ==
    IF "name" \notin DOMAIN obj THEN Raise("KeyError")
    ELSE Ok(obj["name"] \in {"air", "cave_air", "void_air"})

(***************************************************************************)
(* Inputs.                                                                 *)
(***************************************************************************)
BlockNames == {"minecraft:stone", "minecraft:water"}
PropertyMaps == {<< >>, ("level" :> "0")}
\* A state of blocks.json: its id and its properties ({} when the key is absent).
States == [id : 0..MaxBlockId, properties : PropertyMaps]
StateLists == UNION {[1..n -> States] : n \in 0..MaxStates}

BlockType(name, states) == [k |-> name, v |-> [states |-> states]]

\* blocks.json: block types with distinct names, in the order json.load yields
\* them, holding at most MaxStates states together.
BlocksJsons ==
    {<< >>}
    \cup {<<BlockType(a, s)>> : a \in BlockNames, s \in StateLists}
    \cup UNION {{<<BlockType(ab[1], SubSeq(s, 1, n)), BlockType(ab[2], SubSeq(s, n + 1, Len(s)))>> :
                    n \in 0..Len(s), ab \in {x \in BlockNames \X BlockNames : x[1] # x[2]}} :
                 s \in StateLists}

\* The block dump of the documentation's example: stone at 1, water at 2 and 3.
ExampleBlocks ==
    <<BlockType("minecraft:stone", <<[id |-> 1, properties |-> << >>]>>),
      BlockType("minecraft:water", <<[id |-> 2, properties |-> ("level" :> "0")],
                                     [id |-> 3, properties |-> ("level" :> "1")]>>)>>

AbsentFile == [exists |-> FALSE, content |-> << >>]
File(content) == [exists |-> TRUE, content |-> content]

EntryNames == {"minecraft:stick", "minecraft:apple"}
RegistryNames == {"minecraft:item", "minecraft:fluid"}
\* An entry's object: with a protocol_id, or metadata without one.
EntryObjects == {("protocol_id" :> p) : p \in 0..MaxProtocolId} \cup {("components" :> 0)}
Entry(name, obj) == [k |-> name, v |-> obj]
\* The entries of a registry, or items.json: distinct names, in order.
EntriesDicts ==
    {<< >>}
    \cup {<<Entry(n, o)>> : n \in EntryNames, o \in EntryObjects}
    \cup {<<Entry(n, o), Entry(m, q)>> :
             <<n, o, m, q>> \in {x \in EntryNames \X EntryObjects \X EntryNames \X EntryObjects :
                                   x[1] # x[3]}}
\* registries.json with no registry or one registry.
RegistriesJsons ==
    {<< >>}
    \cup {<<[k |-> r, v |-> [entries |-> e]]>> : r \in RegistryNames, e \in EntriesDicts}

BlockDumps ==
    {[blocks |-> b, items |-> AbsentFile, registries |-> AbsentFile] : b \in BlocksJsons}

RegistryDumps ==
    [blocks : {ExampleBlocks, << >>, <<BlockType("minecraft:stone", << >>)>>},
     items : {AbsentFile} \cup {File(e) : e \in EntriesDicts},
     registries : {AbsentFile} \cup {File(c) : c \in RegistriesJsons}]

NoDump == [blocks |-> << >>, items |-> AbsentFile, registries |-> AbsentFile]

\* Arguments of the calls.
UnknownBlock == ("name" :> "minecraft:dirt")
ExampleRepr == ("name" :> "minecraft:water") @@ ("level" :> "1")
BlockReprs ==
    {InjectName(p, n) : p \in PropertyMaps, n \in BlockNames} \cup {UnknownBlock, ExampleRepr}
AirReprs == {("name" :> "air"), ("name" :> "cave_air"), ("name" :> "void_air"),
             ("name" :> "minecraft:stone"), ("level" :> "0")}
BitShiftPairs == (0..MaxPrimary) \X (0..MaxAux)
BitShiftIds == 0..(ShiftLeft(MaxPrimary + 1, 4) + MaxAux)
RegistryArgs == RegistryNames \cup {"minecraft:unknown"}
ValueArgs == EntryNames \cup {"minecraft:missing"}
IdArgs == 0..(MaxProtocolId + 1)
ExampleIds == {1, 2, 3}
BlockIdArgs == (0..(MaxBlockId + 1)) \cup ExampleIds
OpaqueWidths == {8, 13}

(***************************************************************************)
(* Dispatch on the active strategy.                                        *)
(***************************************************************************)
Registry_encode(kind, obj) ==
    IF strategy = "Lookup" THEN Lookup_encode(table, kind, obj) ELSE Opaque_encode(kind, obj)

Registry_decode(kind, val) ==
    IF strategy = "Lookup" THEN Lookup_decode(table, kind, val) ELSE Opaque_decode(kind, val)

Registry_encode_block(obj) ==
    IF strategy = "Lookup" THEN Lookup_encode_block(table, obj)
    ELSE IF strategy = "BitShift" THEN BitShift_encode_block(obj)
    ELSE Opaque_encode_block(obj)

Registry_decode_block(val) ==
    IF strategy = "Lookup" THEN Lookup_decode_block(table, val)
    ELSE IF strategy = "BitShift" THEN BitShift_decode_block(val)
    ELSE Opaque_decode_block(val)

Registry_is_air_block(obj) ==
    IF strategy = "Lookup" THEN Lookup_is_air_block(obj)
    ELSE IF strategy = "BitShift" THEN BitShift_is_air_block(obj)
    ELSE Opaque_is_air_block(obj)

EncodeValueArgs == IF strategy = "Lookup" THEN ValueArgs ELSE IdArgs
EncodeBlockArgs ==
    IF strategy = "Lookup" THEN BlockReprs
    ELSE IF strategy = "BitShift" THEN BitShiftPairs
    ELSE BlockIdArgs
DecodeBlockArgs == IF strategy = "BitShift" THEN BitShiftIds ELSE BlockIdArgs
AirArgs ==
    IF strategy = "Lookup" THEN AirReprs
    ELSE IF strategy = "BitShift" THEN BitShiftPairs
    ELSE BlockIdArgs

(***************************************************************************)
(* State machine.  pc is the caller's position: "start" before a strategy  *)
(* is selected, "failed" when the construction raised, "ready" when a      *)
(* registry is held and no call is pending, "returned" when the last call  *)
(* has returned (or raised) and its result is in call.                     *)
(***************************************************************************)
NoCall == [op |-> "none", arg |-> "none", outcome |-> "none", value |-> "none",
           stored |-> FALSE, mutated |-> FALSE, chained |-> FALSE, prev |-> "none"]

Called(op, arg, res, chained, prev) ==
    [op |-> op, arg |-> arg, outcome |-> res.outcome, value |-> res.value,
     stored |-> (op = "decode_block" /\ strategy = "Lookup" /\ res.outcome = "ok"
                 /\ ~DecodeBlockReturnsCopy),
     mutated |-> FALSE, chained |-> chained, prev |-> prev]

Init ==
    /\ strategy = "none"
    /\ dump = NoDump
    /\ table = NoTable
    /\ error = "none"
    /\ pc = "start"
    /\ call = NoCall

SelectOpaque ==
    /\ pc = "start"
    /\ \E max_bits \in OpaqueWidths :
          table' = [built |-> TRUE, max_bits |-> max_bits]
    /\ strategy' = "Opaque"
    /\ pc' = "ready"
    /\ UNCHANGED <<dump, error, call>>

SelectBitShift ==
    /\ pc = "start"
    /\ table' = [built |-> TRUE, max_bits |-> BitShift_max_bits]
    /\ strategy' = "BitShift"
    /\ pc' = "ready"
    /\ UNCHANGED <<dump, error, call>>

\* LookupRegistry.from_json(reports_path) on the reports d: the caller holds a
\* table only when the call returns one.
FromJson(d) ==
    /\ pc = "start"
    /\ strategy' = "Lookup"
    /\ dump' = d
    /\ LET res == from_json(d)
       IN  IF res.outcome = "ok"
           THEN table' = res.value /\ error' = "none" /\ pc' = "ready"
           ELSE table' = NoTable /\ error' = res.outcome /\ pc' = "failed"
    /\ UNCHANGED call

FromJsonBlocks == pc = "start" /\ \E d \in BlockDumps : FromJson(d)
FromJsonRegistries == pc = "start" /\ \E d \in RegistryDumps : FromJson(d)

Encode ==
    /\ pc = "ready"
    /\ \E kind \in RegistryArgs, obj \in EncodeValueArgs :
          call' = Called("encode", <<kind, obj>>, Registry_encode(kind, obj), FALSE, "none")
    /\ pc' = "returned"
    /\ UNCHANGED <<strategy, dump, table, error>>

Decode ==
    /\ pc = "ready"
    /\ \E kind \in RegistryArgs, val \in IdArgs :
          call' = Called("decode", <<kind, val>>, Registry_decode(kind, val), FALSE, "none")
    /\ pc' = "returned"
    /\ UNCHANGED <<strategy, dump, table, error>>

EncodeBlock ==
    /\ pc = "ready"
    /\ \E obj \in EncodeBlockArgs :
          call' = Called("encode_block", obj, Registry_encode_block(obj), FALSE, "none")
    /\ pc' = "returned"
    /\ UNCHANGED <<strategy, dump, table, error>>

DecodeBlock ==
    /\ pc = "ready"
    /\ \E val \in DecodeBlockArgs :
          call' = Called("decode_block", val, Registry_decode_block(val), FALSE, "none")
    /\ pc' = "returned"
    /\ UNCHANGED <<strategy, dump, table, error>>

\* decode_block(encode_block(b)): the caller decodes the id it was just given.
DecodeEncoded ==
    /\ pc = "returned"
    /\ call.op = "encode_block" /\ call.outcome = "ok" /\ ~call.chained
    /\ call' = Called("decode_block", call.value, Registry_decode_block(call.value),
                      TRUE, call.arg)
    /\ UNCHANGED <<strategy, dump, table, error, pc>>

\* encode_block(decode_block(i)): the caller encodes the block it was just given.
EncodeDecoded ==
    /\ pc = "returned"
    /\ call.op = "decode_block" /\ call.outcome = "ok" /\ ~call.chained /\ ~call.mutated
    /\ call' = Called("encode_block", call.value, Registry_encode_block(call.value),
                      TRUE, call.arg)
    /\ UNCHANGED <<strategy, dump, table, error, pc>>

IsAirBlock ==
    /\ pc = "ready"
    /\ \E obj \in AirArgs :
          call' = Called("is_air_block", obj, Registry_is_air_block(obj), FALSE, "none")
    /\ pc' = "returned"
    /\ UNCHANGED <<strategy, dump, table, error>>

\* The caller changes the mapping decode_block returned: it sets a property.  When
\* the mapping is the stored dict itself, the table's entry changes with it.
CallerMutates ==
    /\ pc = "returned"
    /\ strategy = "Lookup"
    /\ call.op = "decode_block" /\ call.outcome = "ok" /\ ~call.mutated
    /\ \E key \in {"name", "level"} :
          LET changed == [k \in (DOMAIN call.value) \cup {key} |->
                             IF k = key THEN "changed" ELSE call.value[k]]
          IN  /\ call' = [call EXCEPT !.value = changed, !.mutated = TRUE]
              /\ table' = IF call.stored
                          THEN [table EXCEPT !.decode_block_map =
                                   DictSet(table.decode_block_map, call.arg, changed)]
                          ELSE table
    /\ UNCHANGED <<strategy, dump, error, pc>>

\* The caller goes on to its next call.
CallerContinues ==
    /\ pc = "returned"
    /\ pc' = "ready"
    /\ call' = NoCall
    /\ UNCHANGED <<strategy, dump, table, error>>

NextBlocks ==
    \/ SelectOpaque
    \/ SelectBitShift
    \/ FromJsonBlocks
    \/ EncodeBlock
    \/ DecodeBlock
    \/ DecodeEncoded
    \/ EncodeDecoded
    \/ CallerContinues

NextRegistries ==
    \/ SelectOpaque
    \/ SelectBitShift
    \/ FromJsonRegistries
    \/ Encode
    \/ Decode
    \/ EncodeBlock
    \/ DecodeBlock
    \/ IsAirBlock
    \/ CallerMutates
    \/ CallerContinues

\* Block dumps of every shape, block operations.
SpecBlocks == Init /\ [][NextBlocks]_vars

\* Registry dumps of every shape, all operations.
SpecRegistries == Init /\ [][NextRegistries]_vars

(***************************************************************************)
(* What the reports of the last from_json call say, read off the input     *)
(* independently of the construction.                                      *)
(***************************************************************************)
Built == pc \in {"ready", "returned"}
LookupBuilt == strategy = "Lookup" /\ Built
Returned(op) == pc = "returned" /\ call.op = op

\* The states of blocks.json with their place (block type j, state i), their id
\* and the block they describe: the properties with the block type's name.
Recorded ==
    UNION {{[j |-> j, i |-> i, id |-> dump.blocks[j].v.states[i].id,
             repr |-> ("name" :> dump.blocks[j].k) @@ dump.blocks[j].v.states[i].properties] :
              i \in DOMAIN dump.blocks[j].v.states} :
           j \in DOMAIN dump.blocks}
Earlier(a, b) == a.j < b.j \/ (a.j = b.j /\ a.i < b.i)
\* The states that are the last recorded at their id.
LastRecorded == {b \in Recorded : ~\E c \in Recorded : c.id = b.id /\ Earlier(b, c)}
DumpIds == {a.id : a \in Recorded}
EmptyBlockDump == Recorded = {}

\* The entries registry r is loaded from: registries.json's when it names r,
\* else items.json's for minecraft:item.
HasRegistry(r) ==
    \/ dump.registries.exists /\ DictHas(dump.registries.content, r)
    \/ r = "minecraft:item" /\ dump.items.exists
ItemsInUse ==
    dump.items.exists
    /\ ~(dump.registries.exists /\ DictHas(dump.registries.content, "minecraft:item"))
EntriesOf(r) ==
    IF dump.registries.exists /\ DictHas(dump.registries.content, r)
    THEN DictGet(dump.registries.content, r).entries
    ELSE dump.items.content
HasId(obj) == "protocol_id" \in DOMAIN obj
\* The entries of r whose protocol id no other entry of r has.
UniqueEntries(r) ==
    {i \in DOMAIN EntriesOf(r) :
        /\ HasId(EntriesOf(r)[i].v)
        /\ \A m \in DOMAIN EntriesOf(r) :
              (m # i /\ HasId(EntriesOf(r)[m].v))
                  => EntriesOf(r)[m].v["protocol_id"] # EntriesOf(r)[i].v["protocol_id"]}
SomeEntryWithoutId ==
    \E r \in RegistryNames : HasRegistry(r) /\ \E i \in DOMAIN EntriesOf(r) : ~HasId(EntriesOf(r)[i].v)
\* Whether registry r of the built table holds the name, the protocol id.
KnownName(r, name) ==
    HasRegistry(r) /\ \E i \in DOMAIN EntriesOf(r) :
        /\ EntriesOf(r)[i].k = name
        /\ ~\E m \in DOMAIN EntriesOf(r) :
               m > i /\ EntriesOf(r)[m].v["protocol_id"] = EntriesOf(r)[i].v["protocol_id"]
KnownId(r, id) ==
    HasRegistry(r) /\ \E i \in DOMAIN EntriesOf(r) : EntriesOf(r)[i].v["protocol_id"] = id

\* The ids of the table that store the same property set as id.
SameContentIds(id) ==
    {other \in DictKeys(table.decode_block_map) :
        DictGet(table.decode_block_map, other) = DictGet(table.decode_block_map, id)}

(***************************************************************************)
(* C1.  Round trip of blocks.                                              *)
(***************************************************************************)
\* decode_block(encode_block(b)) = b for the chained call of the caller.
DecodeOfEncodeIsIdentity ==
    (Returned("decode_block") /\ call.chained
        /\ (strategy = "BitShift" => call.prev[2] \in 0..15))
    => (call.outcome = "ok" /\ call.value = call.prev)

\* C1 as stated: in each strategy decode_block(encode_block(b)) = b for every block
\* b of the table (BitShift: aux in 0..15) and encode_block(decode_block(i)) = i
\* for every valid id i.
C1_RoundTrip ==
    /\ DecodeOfEncodeIsIdentity
    /\ (Returned("encode_block") /\ call.chained)
       => (call.outcome = "ok" /\ call.value = call.prev)

\* C1 amended: as C1, but in the Lookup strategy encode_block(decode_block(i)) = i
\* is claimed only for an id i whose property set no other id of the table stores;
\* otherwise encode_block(decode_block(i)) is one of the ids storing that set.
C1_RoundTripUniqueContent ==
    /\ DecodeOfEncodeIsIdentity
    /\ (Returned("encode_block") /\ call.chained)
       => /\ call.outcome = "ok"
          /\ strategy # "Lookup" => call.value = call.prev
          /\ strategy = "Lookup" => call.value \in SameContentIds(call.prev)
          /\ (strategy = "Lookup" /\ SameContentIds(call.prev) = {call.prev})
             => call.value = call.prev

\* Witness of C1: a Lookup table of several ids, and encode_block(decode_block(i)) returned i.
C1_Witness ==
    /\ strategy = "Lookup"
    /\ Returned("encode_block") /\ call.chained
    /\ Cardinality(DictKeys(table.decode_block_map)) > 1
    /\ SameContentIds(call.prev) = {call.prev}
    /\ call.value = call.prev

(***************************************************************************)
(* C2.  Unknown registry names, values and ids.                            *)
(***************************************************************************)
UnknownEncode == ~KnownName(call.arg[1], call.arg[2])
UnknownDecode == ~KnownId(call.arg[1], call.arg[2])

\* C2 as stated: in every strategy, encode and decode of an unknown registry name,
\* or of a value or id absent from the registry, end in a LookupError.  Opaque and
\* BitShift hold no registry: every name is unknown to them.
C2_UnknownRaises ==
    /\ (Returned("encode") /\ (strategy = "Lookup" => UnknownEncode))
       => IsLookupError(call.outcome)
    /\ (Returned("decode") /\ (strategy = "Lookup" => UnknownDecode))
       => IsLookupError(call.outcome)

\* C2 amended: in the Lookup strategy encode and decode of an unknown registry name,
\* or of a value or id absent from the registry, end in a LookupError (KeyError);
\* in the Opaque and BitShift strategies they never raise and return their argument.
C2_UnknownRaisesInLookup ==
    /\ (strategy = "Lookup" /\ Returned("encode") /\ UnknownEncode)
       => IsLookupError(call.outcome)
    /\ (strategy = "Lookup" /\ Returned("decode") /\ UnknownDecode)
       => IsLookupError(call.outcome)
    /\ (strategy \in {"Opaque", "BitShift"} /\ (Returned("encode") \/ Returned("decode")))
       => (call.outcome = "ok" /\ call.value = call.arg[2])

\* Witness of C2: decode of an id absent from a registry the Lookup table holds raised KeyError.
C2_Witness ==
    /\ strategy = "Lookup"
    /\ Returned("decode")
    /\ HasRegistry(call.arg[1])
    /\ UnknownDecode
    /\ call.outcome = "KeyError"

(***************************************************************************)
(* C3.  max_bits of a constructed Lookup table.                            *)
(***************************************************************************)
\* C3: every id of the block table is below 2^max_bits, and max_bits is the least
\* such number.
C3_MaxBitsFitsLargestId ==
    LookupBuilt =>
        /\ \A id \in DictKeys(table.decode_block_map) : id < 2 ^ table.max_bits
        /\ table.max_bits > 0 =>
              \E id \in DictKeys(table.decode_block_map) : id >= 2 ^ (table.max_bits - 1)

(***************************************************************************)
(* C4.  Construction from an empty block dump.                             *)
(***************************************************************************)
\* C4 as stated: from an empty block dump the construction ends in
\* ConstructionError and the caller holds no table.
C4_EmptyDumpConstructionError ==
    (strategy = "Lookup" /\ EmptyBlockDump)
    => (pc = "failed" /\ error = "ConstructionError" /\ table = NoTable)

\* C4 amended: from an empty block dump the construction raises ValueError (from
\* max() of no keys), or KeyError before that when a registry entry has no
\* protocol_id; the caller holds no table, and no call is made on one.
C4_EmptyDumpRaises ==
    (strategy = "Lookup" /\ EmptyBlockDump)
    => /\ pc = "failed"
       /\ error = (IF SomeEntryWithoutId THEN "KeyError" ELSE "ValueError")
       /\ table = NoTable
       /\ call = NoCall

\* Witness of C4: from_json of an empty block dump, with an items dump, raised ValueError.
C4_Witness ==
    /\ strategy = "Lookup"
    /\ EmptyBlockDump
    /\ dump.items.exists
    /\ pc = "failed"
    /\ error = "ValueError"

(***************************************************************************)
(* C5.  BitShift encode_block.                                             *)
(***************************************************************************)
\* C5 as stated: encode_block((primary, aux)) = (primary << 4) | (aux & 0xF) for
\* every aux, and decoding the result gives primary back.
C5_EncodeMasksAux ==
    /\ (strategy = "BitShift" /\ Returned("encode_block") /\ ~call.chained)
       => call.value = BitOr(ShiftLeft(call.arg[1], 4), BitAnd(call.arg[2], 15))
    /\ (strategy = "BitShift" /\ Returned("decode_block") /\ call.chained)
       => call.value[1] = call.prev[1]

\* C5 amended: encode_block((primary, aux)) = (primary << 4) | aux, unmasked: the
\* bits of aux above the low 4 are or-ed into primary's.  For aux in 0..15 this is
\* (primary << 4) | (aux & 0xF) = 16 * primary + aux and decoding gives primary back.
C5_EncodeDoesNotMaskAux ==
    /\ (strategy = "BitShift" /\ Returned("encode_block") /\ ~call.chained)
       => /\ call.value = 16 * BitOr(call.arg[1], call.arg[2] \div 16) + (call.arg[2] % 16)
          /\ call.arg[2] \in 0..15 => call.value = 16 * call.arg[1] + call.arg[2]
    /\ (strategy = "BitShift" /\ Returned("decode_block") /\ call.chained)
       => /\ call.value[1] = BitOr(call.prev[1], call.prev[2] \div 16)
          /\ call.prev[2] \in 0..15 => call.value[1] = call.prev[1]

\* Witness of C5: decode_block(encode_block((primary, aux))) with aux > 15 gave another primary.
C5_Witness ==
    /\ strategy = "BitShift"
    /\ Returned("decode_block") /\ call.chained
    /\ call.prev[2] > 15
    /\ call.value[1] # call.prev[1]

(***************************************************************************)
(* C6.  The named registries are bijections.                               *)
(***************************************************************************)
\* C6: in a built Lookup table, for every entry (name, protocol_id) of a registry
\* whose protocol id is unique in that registry's dump, encode gives the id and
\* decode gives the name.
C6_RegistryBijection ==
    LookupBuilt =>
        \A r \in RegistryNames : HasRegistry(r) =>
            \A i \in UniqueEntries(r) :
                LET name == EntriesOf(r)[i].k
                    id == EntriesOf(r)[i].v["protocol_id"]
                IN  /\ Lookup_encode(table, r, name).outcome = "ok"
                    /\ Lookup_encode(table, r, name).value = id
                    /\ Lookup_decode(table, r, id).outcome = "ok"
                    /\ Lookup_decode(table, r, id).value = name
                    /\ (Returned("encode") /\ call.arg = <<r, name>>)
                       => (call.outcome = "ok" /\ call.value = id)
                    /\ (Returned("decode") /\ call.arg = <<r, id>>)
                       => (call.outcome = "ok" /\ call.value = name)

\* Witness of C6: encode of an item of the registry synthesized from items.json returned its
\* protocol id, which is not its position in the dump.
C6_Witness ==
    /\ strategy = "Lookup"
    /\ ItemsInUse
    /\ Returned("encode")
    /\ call.arg[1] = "minecraft:item"
    /\ \E i \in UniqueEntries("minecraft:item") :
          /\ EntriesOf("minecraft:item")[i].k = call.arg[2]
          /\ EntriesOf("minecraft:item")[i].v["protocol_id"] # i - 1
          /\ call.value = EntriesOf("minecraft:item")[i].v["protocol_id"]

(***************************************************************************)
(* C7.  An items dump with an entry that has no protocol_id.               *)
(***************************************************************************)
ItemsWithoutId == {i \in DOMAIN dump.items.content : ~HasId(dump.items.content[i].v)}

\* C7 as stated: the construction succeeds and the entry gets its position in the
\* dump as its protocol id.
C7_SequentialIds ==
    (strategy = "Lookup" /\ dump.items.exists /\ ItemsWithoutId # {}
        /\ dump.blocks = ExampleBlocks)
    => /\ pc # "failed"
       /\ \A i \in ItemsWithoutId :
             /\ Lookup_encode(table, "minecraft:item", dump.items.content[i].k).outcome = "ok"
             /\ Lookup_encode(table, "minecraft:item", dump.items.content[i].k).value = i - 1

\* C7 amended: no sequential id is synthesized.  When an entry of the items dump
\* has no protocol_id and registries.json does not replace minecraft:item, the
\* construction raises KeyError and the caller holds no table.
C7_MissingIdRaises ==
    (strategy = "Lookup" /\ ItemsInUse /\ ItemsWithoutId # {})
    => (pc = "failed" /\ error = "KeyError" /\ table = NoTable /\ call = NoCall)

\* Witness of C7: from_json of blocks and an items dump of two entries, one without protocol_id,
\* raised KeyError.
C7_Witness ==
    /\ strategy = "Lookup"
    /\ ItemsInUse
    /\ ItemsWithoutId # {}
    /\ dump.blocks = ExampleBlocks
    /\ Len(dump.items.content) > 1
    /\ pc = "failed"
    /\ error = "KeyError"

(***************************************************************************)
(* C8.  A table is immutable after construction.                           *)
(***************************************************************************)
\* C8: no step taken once a Lookup table is built (a call of encode, decode,
\* encode_block, decode_block or is_air_block, returning or raising, or the caller
\* changing the mapping decode_block returned) changes the table.
C8_TableImmutable == [][LookupBuilt => table' = table]_vars

\* Witness of C8: the caller changed the mapping decode_block returned and the table still
\* holds, and decode_block still returns, the mapping as constructed.
C8_Witness ==
    /\ strategy = "Lookup"
    /\ Returned("decode_block")
    /\ call.mutated
    /\ call.value # DictGet(table.decode_block_map, call.arg)
    /\ Lookup_decode_block(table, call.arg).value # call.value

(***************************************************************************)
(* C9.  Duplicate block ids.                                               *)
(***************************************************************************)
DuplicateIds == {a.id : a \in {x \in Recorded : \E y \in Recorded : y.id = x.id /\ Earlier(x, y)}}
\* The states overwritten at their id.
Overwritten == Recorded \ LastRecorded
LastAt(id) == CHOOSE b \in LastRecorded : b.id = id
\* Whether an id other than a's stores the block of the overwritten state a.
CarriedElsewhere(a) == \E b \in LastRecorded : b.id # a.id /\ b.repr = a.repr

\* C9 as stated, for the dumps a table is built from: with two states at one id,
\* decode_block of the id gives the state recorded last, and encode_block of the
\* earlier state raises LookupError unless another id carries the same property
\* set.
C9_LastWriteWins ==
    (strategy = "Lookup" /\ DuplicateIds # {} /\ pc # "failed")
    => /\ \A id \in DuplicateIds :
             /\ Lookup_decode_block(table, id).outcome = "ok"
             /\ Lookup_decode_block(table, id).value = LastAt(id).repr
       /\ \A a \in Overwritten :
             ~CarriedElsewhere(a) => IsLookupError(Lookup_encode_block(table, a.repr).outcome)

\* C9 amended: duplicate ids never raise by themselves; with two states at one id
\* the construction fails only as it does without duplicates (here: when the
\* largest id of the dump is 0, where math.log raises ValueError), and otherwise
\* decode_block of the id gives the state recorded last, and encode_block of an
\* earlier state raises LookupError unless the state recorded last at that id, or
\* another id, carries the same property set, in which case it returns an id.
C9_LastWriteWinsDistinctContent ==
    (strategy = "Lookup" /\ DuplicateIds # {})
    => /\ pc = "failed" <=> DumpIds = {0}
       /\ pc # "failed" =>
             /\ \A id \in DuplicateIds :
                   /\ Lookup_decode_block(table, id).outcome = "ok"
                   /\ Lookup_decode_block(table, id).value = LastAt(id).repr
                   /\ (Returned("decode_block") /\ call.arg = id /\ ~call.chained)
                      => (call.outcome = "ok" /\ call.value = LastAt(id).repr)
             /\ \A a \in Overwritten :
                   /\ (~CarriedElsewhere(a) /\ a.repr # LastAt(a.id).repr)
                      => /\ IsLookupError(Lookup_encode_block(table, a.repr).outcome)
                         /\ (Returned("encode_block") /\ call.arg = a.repr)
                            => IsLookupError(call.outcome)
                   /\ (CarriedElsewhere(a) \/ a.repr = LastAt(a.id).repr)
                      => Lookup_encode_block(table, a.repr).outcome = "ok"

\* Witness of C9: encode_block of an overwritten state, which no id carries, raised KeyError.
C9_Witness ==
    /\ strategy = "Lookup"
    /\ Returned("encode_block") /\ ~call.chained
    /\ \E a \in Overwritten :
          /\ a.repr = call.arg
          /\ a.repr # LastAt(a.id).repr
          /\ ~CarriedElsewhere(a)
    /\ Cardinality(DumpIds) > 1
    /\ call.outcome = "KeyError"

(***************************************************************************)
(* C10.  The reverse block index points at stored ids of the same content. *)
(***************************************************************************)
\* C10: in a built Lookup table, encode_block(b) = i implies that i is a key of the
\* forward block map whose stored mapping has the pairs of b, and the reverse
\* index has no more entries than the forward map.
C10_ReverseIndexSound ==
    LookupBuilt =>
        /\ \A b \in BlockReprs :
              Lookup_encode_block(table, b).outcome = "ok" =>
                  /\ DictHas(table.decode_block_map, Lookup_encode_block(table, b).value)
                  /\ DictGet(table.decode_block_map, Lookup_encode_block(table, b).value) = b
        /\ (Returned("encode_block") /\ call.outcome = "ok") =>
              /\ DictHas(table.decode_block_map, call.value)
              /\ DictGet(table.decode_block_map, call.value) = call.arg
        /\ Len(table.encode_block_map) <= Len(table.decode_block_map)

\* Witness of C10: encode_block succeeded on a table built from a dump with a duplicate id,
\* whose reverse index is smaller than its forward map.
C10_Witness ==
    /\ strategy = "Lookup"
    /\ Returned("encode_block") /\ call.outcome = "ok"
    /\ DuplicateIds # {}
    /\ Len(table.encode_block_map) < Len(table.decode_block_map)

====
